---- MODULE Spec2Model ----
(***************************************************************************)
(* StrGraphCPP, Python frontend: the graph builder (graph.py, ops.py,      *)
(* custom_ops.py), the evaluation entry points run / run_optimized /       *)
(* compile with the cached CompiledGraph, the custom-operation registry    *)
(* and the module-global active graph of the context manager.              *)
(*                                                                         *)
(* The C++ backend (strgraph_cpp) is not part of the Python sources; its   *)
(* compile and execute steps are modelled from the specification           *)
(* (sections 4.1, 4.3 and 4.5).                                            *)
(*                                                                         *)
(* Python values:                                                          *)
(*   None            the empty tuple <<>>; a present value x is <<x>>       *)
(*   node ids, names TLA+ strings (only concatenation is needed)           *)
(*   string values   sequences of one-character strings                    *)
(*   dict            a function (record) from keys to values               *)
(***************************************************************************)
EXTENDS Integers, Sequences, FiniteSets, TLC

\* ------------------------------------------------------------------ bounds

\* Nodes created in total, over all graphs, by the builder calls of SpecBuild.
MaxNodes == 3
\* Nodes created in the graph that Spec, and SpecCustom, build.
MaxEvalNodes == 2
\* Largest index used on a multi-output handle, handle[0] .. handle[MaxIndex].
MaxIndex == 1
\* Nodes created in the graph that SpecPorts builds.
MaxPortNodes == 3

\* ------------------------------------------------------------- input sets

None == <<>>
Some(x) == <<x>>

\* The Graph instances of the program.
Graphs == {"g1", "g2"}
\* Explicit name arguments; "node_0" is also the first auto-generated id.
ExplicitNames == {"a", "node_0"}
NameArgs == {None} \cup {Some(n) : n \in ExplicitNames}
\* The name arguments with the empty string among them.
AnyNameArgs == NameArgs \cup {Some("")}
\* String values given to constant and variable nodes.
Values == {<<"a", " ", "b">>}
\* Feed dictionaries: placeholder id -> string value, and None.
FeedKeys == {"a"}
FeedValues == {<<"c">>, <<"d", " ", "e">>}
FeedDicts == {<<>>} \cup {(k :> v) : k \in FeedKeys, v \in FeedValues}
FeedArgs == {None} \cup {Some(f) : f \in FeedDicts}
\* Delimiters given to split.
Delimiters == {<<" ">>}
\* The feeds given to the evaluations of SpecPorts: the empty string too.
PortFeedArgs == FeedArgs \cup {Some(k :> <<>>) : k \in FeedKeys}
\* Names and executors given to register_operation. "reverse" is a built-in.
BuiltinOps == {"identity", "reverse", "to_upper", "to_lower", "concat", "split",
               "trim", "replace", "substring", "repeat", "pad_left", "pad_right",
               "capitalize", "title"}
OpNames == {"reverse", "my_op"}
Funcs == {"double_string", "add_prefix_split"}
\* Name arguments of the @operation decorator: None stands for no name.
DecoratorNames == {None, Some("my_op")}
\* C++ operation objects given to register_cpp_operation.
CppOps == {"cpp_a", "cpp_b"}
\* Threads of the program.
Threads == {"t1", "t2"}

\* --------------------------------------------------------------- variables

VARIABLES
    nodes,              \* Graph._nodes: graph -> list of node dicts
    node_counter,       \* Graph._node_counter: graph -> int
    node_objects,       \* Graph._node_objects: graph -> dict id -> Node
    compiled_graph,     \* Graph._compiled_graph: graph -> None or CompiledGraph
    handle,             \* the CompiledGraph the caller got from Graph.compile()
    custom_operations,  \* custom_ops._custom_operations: name -> (func, multi)
    active_graph,       \* graph._active_graph
    python_operations,  \* hybrid_ops._manager.python_operations: name -> func
    cpp_operations,     \* hybrid_ops._manager.cpp_operations: name -> operation
    operation_priorities, \* hybrid_ops._manager.operation_priorities: name -> table
    pc,                 \* thread -> position in its `with Graph() as g:` block
    last                \* the last call made and what it returned or raised

vars == <<nodes, node_counter, node_objects, compiled_graph, handle,
          custom_operations, active_graph, python_operations, cpp_operations,
          operation_priorities, pc, last>>

graphVars == <<nodes, node_counter, node_objects>>

hybridVars == <<python_operations, cpp_operations, operation_priorities>>

\* ----------------------------------------------------------------- helpers

Range(s) == {s[i] : i \in 1..Len(s)}

\* d[k] = v added to (or replaced in) the dict d.
DictSet(d, k, v) == (k :> v) @@ d

EmptyDict == <<>>

\* del d[k]
DictDel(d, k) ==
    IF DOMAIN d \ {k} = {} THEN EmptyDict ELSE [x \in DOMAIN d \ {k} |-> d[x]]

\* list(d.keys()): every key once.
RECURSIVE KeyList(_)
KeyList(S) ==
    IF S = {} THEN <<>>
    ELSE LET x == CHOOSE y \in S : TRUE IN <<x>> \o KeyList(S \ {x})

RECURSIVE SumLen(_, _)
SumLen(f, S) ==
    IF S = {} THEN 0
    ELSE LET x == CHOOSE y \in S : TRUE IN Len(f[x]) + SumLen(f, S \ {x})

TotalNodes == SumLen(nodes, Graphs)

\* The record kept of the last call: the operation, the graph it was made on,
\* its name argument, the exception a builder or registry call raised ("" when
\* it returned) and, for an evaluation, the path it took.
Call(op, g, name, raised, via) ==
    [op |-> op, graph |-> g, name |-> name, raised |-> raised, via |-> via]

NoCall == Call("", "", None, "", "")

BuilderCall(op, g, name, raised) == Call(op, g, name, raised, "")

\* ------------------------------------------------------------ Node objects

\* Node.__init__ / MultiOutputNode: cls tells the two classes apart.
Node(g, node_id, node_type) ==
    [graph |-> g, id |-> node_id, type |-> node_type, cls |-> "Node"]

MultiOutputNode(g, node_id, node_type) ==
    [graph |-> g, id |-> node_id, type |-> node_type, cls |-> "MultiOutputNode"]

\* __getitem__ counting the outputs from one.
GetItemFromOne(node, index) ==
    Node(node.graph, node.id \o ":" \o ToString(index + 1), "indexed_output")

\* MultiOutputNode.__getitem__: a pseudo-node with id "parent_id:index".
GetItem(node, index) ==
    Node(node.graph, node.id \o ":" \o ToString(index), "indexed_output")

\* MultiOutputNode.__getitem__, line 389: the exception for an index argument
\* [type, value], "" when the index is accepted.
GetItemRaises(index) == IF index.type # "int" THEN "TypeError" ELSE ""

\* The Node objects a caller can hold: what the builder calls returned, and
\* the indexed outputs of the multi-output handles among them.
UserNodes ==
    LET made == UNION {{node_objects[g][i] : i \in DOMAIN node_objects[g]} : g \in Graphs}
    IN  made \cup {GetItem(n, k) : n \in {m \in made : m.cls = "MultiOutputNode"},
                                   k \in 0..MaxIndex}

\* ------------------------------------------------------------------ builder

\* _generate_node_id without the test of line 56.
generate_node_id_unchecked(g, name) ==
    IF name = None
    THEN [raised  |-> "",
          id      |-> "node_" \o ToString(node_counter[g]),
          counter |-> node_counter[g] + 1]
    ELSE [raised |-> "", id |-> name[1], counter |-> node_counter[g]]

\* Graph._generate_node_id: [raised, id, counter] for graph g.
generate_node_id(g, name) ==
    IF name = None
    THEN [raised  |-> "",
          id      |-> "node_" \o ToString(node_counter[g]),
          counter |-> node_counter[g] + 1]
    ELSE IF name[1] \in DOMAIN node_objects[g]
         THEN [raised |-> "ValueError", id |-> name[1], counter |-> node_counter[g]]
         ELSE [raised |-> "", id |-> name[1], counter |-> node_counter[g]]

\* _add_node inserting the node dict at the head of the list.
add_node_front(g, gen, node_dict, node_obj) ==
    /\ nodes' = [nodes EXCEPT ![g] = <<node_dict>> \o @]
    /\ node_objects' = [node_objects EXCEPT ![g] = DictSet(@, node_dict.id, node_obj)]
    /\ node_counter' = [node_counter EXCEPT ![g] = gen.counter]

\* Graph._add_node, after _generate_node_id gave gen: the node dict is appended
\* and the node object registered under the dict's id.
add_node(g, gen, node_dict, node_obj) ==
    /\ nodes' = [nodes EXCEPT ![g] = Append(@, node_dict)]
    /\ node_objects' = [node_objects EXCEPT ![g] = DictSet(@, node_dict.id, node_obj)]
    /\ node_counter' = [node_counter EXCEPT ![g] = gen.counter]

\* A builder call that raised: the exception leaves the call before any write
\* other than the ones _generate_node_id made.
builder_raise(g, gen) ==
    /\ node_counter' = [node_counter EXCEPT ![g] = gen.counter]
    /\ UNCHANGED <<nodes, node_objects>>

otherVars == <<compiled_graph, handle, custom_operations, active_graph, hybridVars, pc>>

\* Graph.placeholder
placeholder(g, name) ==
    /\ LET gen == generate_node_id(g, name) IN
       /\ IF gen.raised # ""
          THEN builder_raise(g, gen)
          ELSE add_node(g, gen, [id |-> gen.id, type |-> "placeholder"],
                        Node(g, gen.id, "placeholder"))
       /\ last' = BuilderCall("placeholder", g, name, gen.raised)
    /\ UNCHANGED otherVars

\* Graph.constant
constant(g, value, name) ==
    /\ LET gen == generate_node_id(g, name) IN
       /\ IF gen.raised # ""
          THEN builder_raise(g, gen)
          ELSE add_node(g, gen, [id |-> gen.id, type |-> "constant", value |-> value],
                        Node(g, gen.id, "constant"))
       /\ last' = BuilderCall("constant", g, name, gen.raised)
    /\ UNCHANGED otherVars

\* Graph.variable
variable(g, value, name) ==
    /\ LET gen == generate_node_id(g, name) IN
       /\ IF gen.raised # ""
          THEN builder_raise(g, gen)
          ELSE add_node(g, gen, [id |-> gen.id, type |-> "variable", value |-> value],
                        Node(g, gen.id, "variable"))
       /\ last' = BuilderCall("variable", g, name, gen.raised)
    /\ UNCHANGED otherVars

\* _add_operation_node without the test of the constants list.
operation_dict_always(node_id, op_name, inputs, constants) ==
    [id |-> node_id, op |-> op_name, inputs |-> inputs, constants |-> constants]

\* The node dict Graph._add_operation_node builds: "constants" only when the
\* list is non-empty.
operation_dict(node_id, op_name, inputs, constants) ==
    IF constants # <<>>
    THEN [id |-> node_id, op |-> op_name, inputs |-> inputs, constants |-> constants]
    ELSE [id |-> node_id, op |-> op_name, inputs |-> inputs]

\* _add_operation_node keeping one entry per id: the dict of an id already in
\* the list overwrites that entry.
add_operation_node_keyed(g, op_name, inputs, constants, name, multi, op) ==
    /\ LET gen == generate_node_id(g, name)
           d   == operation_dict(gen.id, op_name, inputs, constants)
           old == {i \in 1..Len(nodes[g]) : nodes[g][i].id = gen.id}
       IN
       /\ IF gen.raised # ""
          THEN builder_raise(g, gen)
          ELSE IF old = {}
          THEN add_node(g, gen, d, IF multi THEN MultiOutputNode(g, gen.id, "operation")
                                            ELSE Node(g, gen.id, "operation"))
          ELSE /\ nodes' = [nodes EXCEPT ![g] =
                               [i \in 1..Len(@) |-> IF i \in old THEN d ELSE @[i]]]
               /\ node_counter' = [node_counter EXCEPT ![g] = gen.counter]
               /\ UNCHANGED node_objects
       /\ last' = BuilderCall(op, g, name, gen.raised)
    /\ UNCHANGED otherVars

\* Graph._add_operation_node. multi: the caller (split, custom_op) afterwards
\* replaces the registered Node by a MultiOutputNode of the same id.
add_operation_node(g, op_name, inputs, constants, name, multi, op) ==
    /\ LET gen == generate_node_id(g, name) IN
       /\ IF gen.raised # ""
          THEN builder_raise(g, gen)
          ELSE add_node(g, gen, operation_dict(gen.id, op_name, inputs, constants),
                        IF multi THEN MultiOutputNode(g, gen.id, "operation")
                                 ELSE Node(g, gen.id, "operation"))
       /\ last' = BuilderCall(op, g, name, gen.raised)
    /\ UNCHANGED otherVars

\* ops.reverse
reverse(node, name) ==
    add_operation_node(node.graph, "reverse", <<node.id>>, <<>>, name, FALSE, "reverse")

\* ops.to_upper
to_upper(node, name) ==
    add_operation_node(node.graph, "to_upper", <<node.id>>, <<>>, name, FALSE, "to_upper")

\* ops.concat: the graph is the first node's, the ids are all nodes'.
concat(node_list, name) ==
    /\ node_list # <<>>
    /\ add_operation_node(node_list[1].graph, "concat",
                          [i \in 1..Len(node_list) |-> node_list[i].id],
                          <<>>, name, FALSE, "concat")

\* ops.split
split(node, delimiter, name) ==
    add_operation_node(node.graph, "split", <<node.id>>, <<delimiter>>, name, TRUE, "split")

\* custom_op without the conversion to MultiOutputNode.
custom_op_single(op_name, node_list, constants, name) ==
    /\ node_list # <<>>
    /\ IF op_name \notin DOMAIN custom_operations
       THEN /\ last' = BuilderCall("custom_op", node_list[1].graph, name, "ValueError")
            /\ UNCHANGED <<graphVars, otherVars>>
       ELSE add_operation_node(node_list[1].graph, op_name,
                               [i \in 1..Len(node_list) |-> node_list[i].id],
                               constants, name, FALSE, "custom_op")

\* custom_ops.custom_op
custom_op(op_name, node_list, constants, name) ==
    /\ node_list # <<>>
    /\ IF op_name \notin DOMAIN custom_operations
       THEN /\ last' = BuilderCall("custom_op", node_list[1].graph, name, "ValueError")
            /\ UNCHANGED <<graphVars, otherVars>>
       ELSE add_operation_node(node_list[1].graph, op_name,
                               [i \in 1..Len(node_list) |-> node_list[i].id],
                               constants, name, custom_operations[op_name].multi_output,
                               "custom_op")

\* --------------------------------------------------------- JSON interchange

\* Graph.to_json: the dict holds the node list itself.
to_json(g) == [nodes |-> nodes[g]]

\* The keys of a node dict in the order the builder inserted them.
KeyOrder == <<"id", "type", "op", "value", "inputs", "constants">>

\* json.dumps of one node dict: the object's members, as <<key, value>> pairs.
json_object(d) ==
    LET keys == SelectSeq(KeyOrder, LAMBDA k : k \in DOMAIN d)
    IN  [i \in 1..Len(keys) |-> <<keys[i], d[keys[i]]>>]

\* json.dumps of a graph dict: the text is fixed when it is made.
json_dumps(graph_json) ==
    [i \in 1..Len(graph_json.nodes) |-> json_object(graph_json.nodes[i])]

\* ------------------------------------------- backend: parse and compile

HasMember(obj, key) == \E i \in 1..Len(obj) : obj[i][1] = key

Member(obj, key) == obj[CHOOSE i \in 1..Len(obj) : obj[i][1] = key][2]

ParsedNode(id, kind, value, op_name, inputs, constants) ==
    [id |-> id, kind |-> kind, value |-> value, op_name |-> op_name,
     inputs |-> inputs, constants |-> constants]

\* One JSON node object read into a node definition (spec 4.2).
ParseNode(obj) ==
    LET id == IF HasMember(obj, "id") THEN Member(obj, "id") ELSE "" IN
    IF HasMember(obj, "op")
    THEN ParsedNode(id, "operation", <<>>, Member(obj, "op"),
                    IF HasMember(obj, "inputs") THEN Member(obj, "inputs") ELSE <<>>,
                    IF HasMember(obj, "constants") THEN Member(obj, "constants") ELSE <<>>)
    ELSE IF HasMember(obj, "type")
    THEN ParsedNode(id, Member(obj, "type"),
                    IF HasMember(obj, "value") THEN Member(obj, "value") ELSE <<>>,
                    "", <<>>, <<>>)
    ELSE ParsedNode(id, "constant",
                    IF HasMember(obj, "value") THEN Member(obj, "value") ELSE <<>>,
                    "", <<>>, <<>>)

\* Whether the object satisfies the schema of spec 4.2.
SchemaOk(obj) ==
    /\ HasMember(obj, "id")
    /\ \/ HasMember(obj, "op") /\ HasMember(obj, "inputs") /\ ~HasMember(obj, "type")
       \/ /\ HasMember(obj, "type") /\ ~HasMember(obj, "op")
          /\ Member(obj, "type") \in {"constant", "variable"} => HasMember(obj, "value")
          /\ Member(obj, "type") = "placeholder" => ~HasMember(obj, "value")
       \/ ~HasMember(obj, "type") /\ ~HasMember(obj, "op") /\ HasMember(obj, "value")

\* A port reference "<node_id>" or "<node_id>:<k>" resolved against the ids.
ParsePortRef(ref, ids) ==
    LET hits == {p \in ids \X (0..MaxIndex) : ref = p[1] \o ":" \o ToString(p[2])} IN
    IF ref \in ids THEN [known |-> TRUE, id |-> ref, port |-> 0]
    ELSE IF hits # {}
    THEN LET p == CHOOSE q \in hits : TRUE IN [known |-> TRUE, id |-> p[1], port |-> p[2]]
    ELSE [known |-> FALSE, id |-> ref, port |-> 0]

\* Declared output arity: 0 stands for dynamic (split, foreign callbacks).
Arity(n) ==
    IF n.kind # "operation" THEN 1
    ELSE IF n.op_name = "split" \/ n.op_name \notin BuiltinOps THEN 0
    ELSE 1

\* The node definition with the given id (the first one, ids being unique in
\* a valid compiled graph).
NodeById(pnodes, id) == pnodes[CHOOSE i \in 1..Len(pnodes) : pnodes[i].id = id]

\* Compiler steps 1-4 of spec 4.3 over the JSON text; ops is the registry of
\* foreign callbacks at compile time, captured in the result.
BackendCompile(json, ops) ==
    LET pnodes == [i \in 1..Len(json) |-> ParseNode(json[i])]
        ids    == {pnodes[i].id : i \in 1..Len(pnodes)}
        opn    == {i \in 1..Len(pnodes) : pnodes[i].kind = "operation"}
        refs   == UNION {{<<i, j>> : j \in 1..Len(pnodes[i].inputs)} : i \in opn}
        res(r) == ParsePortRef(pnodes[r[1]].inputs[r[2]], ids)
        error  ==
            IF \E i \in 1..Len(json) : ~SchemaOk(json[i]) THEN "SchemaError"
            ELSE IF \E i, j \in 1..Len(pnodes) : i # j /\ pnodes[i].id = pnodes[j].id
                 THEN "DuplicateNode"
            ELSE IF \E r \in refs : ~res(r).known THEN "UnknownNode"
            ELSE IF \E i \in opn : pnodes[i].op_name \notin BuiltinOps \cup DOMAIN ops
                 THEN "UnknownOperation"
            ELSE IF \E r \in refs :
                       LET a == Arity(NodeById(pnodes, res(r).id))
                       IN  a # 0 /\ res(r).port >= a
                 THEN "BadPort"
            ELSE ""
    IN  [valid |-> error = "", error |-> error, nodes |-> pnodes, ops |-> ops]

\* ------------------------------------------------- backend: operations

Reverse(s) == [i \in 1..Len(s) |-> s[Len(s) + 1 - i]]

Upper(c) ==
    CASE c = "a" -> "A" [] c = "b" -> "B" [] c = "c" -> "C"
      [] c = "d" -> "D" [] c = "e" -> "E" [] OTHER -> c

ToUpper(s) == [i \in 1..Len(s) |-> Upper(s[i])]

RECURSIVE Flatten(_)
Flatten(ss) == IF ss = <<>> THEN <<>> ELSE Head(ss) \o Flatten(Tail(ss))

IsPrefix(p, s) == Len(p) <= Len(s) /\ SubSeq(s, 1, Len(p)) = p

\* split: acc is the part being collected.
RECURSIVE SplitFrom(_, _, _)
SplitFrom(s, delim, acc) ==
    IF s = <<>> THEN <<acc>>
    ELSE IF IsPrefix(delim, s)
         THEN <<acc>> \o SplitFrom(SubSeq(s, Len(delim) + 1, Len(s)), delim, <<>>)
         ELSE SplitFrom(Tail(s), delim, Append(acc, Head(s)))

Split(s, delim) ==
    IF s = <<>> THEN << <<>> >>
    ELSE IF delim = <<>> THEN [i \in 1..Len(s) |-> <<s[i]>>]
    ELSE SplitFrom(s, delim, <<>>)

\* The foreign callbacks registered by test_custom_operations_execution:
\* double_string returns inputs[0] + inputs[0]; add_prefix_split returns one
\* "<prefix>_<word>" per whitespace-separated word of inputs[0], the prefix
\* being constants[0], or "PREFIX" when there are no constants.
CallFunc(func, inputs, constants) ==
    IF func = "double_string" THEN <<inputs[1] \o inputs[1]>>
    ELSE LET prefix == IF constants # <<>> THEN constants[1]
                       ELSE <<"P", "R", "E", "F", "I", "X">>
             words  == SelectSeq(Split(inputs[1], <<" ">>), LAMBDA w : w # <<>>)
         IN  [i \in 1..Len(words) |-> prefix \o <<"_">> \o words[i]]

\* The registry entry invoked with (inputs, constants): [raised, out].
ApplyOp(op_name, ops, inputs, constants) ==
    IF op_name \in DOMAIN ops
    THEN [raised |-> "", out |-> CallFunc(ops[op_name].func, inputs, constants)]
    ELSE IF op_name \in {"reverse", "to_upper", "split"} /\ Len(inputs) # 1
    THEN [raised |-> "BadPort", out |-> <<>>]
    ELSE IF op_name = "split" /\ Len(constants) # 1
    THEN [raised |-> "InvalidArgument", out |-> <<>>]
    ELSE IF op_name = "reverse" THEN [raised |-> "", out |-> <<Reverse(inputs[1])>>]
    ELSE IF op_name = "to_upper" THEN [raised |-> "", out |-> <<ToUpper(inputs[1])>>]
    ELSE IF op_name = "concat"
    THEN IF inputs = <<>> THEN [raised |-> "BadPort", out |-> <<>>]
         ELSE [raised |-> "", out |-> <<Flatten(inputs)>>]
    ELSE IF op_name = "split" THEN [raised |-> "", out |-> Split(inputs[1], constants[1])]
    ELSE [raised |-> "UnknownOperation", out |-> <<>>]

\* --------------------------------------------------- backend: executor

Outcome(raised, value) == [raised |-> raised, value |-> value]

\* The ids a node reads, in a compiled graph whose references all resolve.
Producers(cg, id) ==
    LET n   == NodeById(cg.nodes, id)
        ids == {cg.nodes[i].id : i \in 1..Len(cg.nodes)}
    IN  {ParsePortRef(n.inputs[j], ids).id : j \in 1..Len(n.inputs)}

\* The ids reachable from the ids of S along input references.
RECURSIVE ReachableFrom(_, _)
ReachableFrom(cg, S) ==
    LET next == S \cup UNION {Producers(cg, id) : id \in S}
    IN  IF next = S THEN S ELSE ReachableFrom(cg, next)

\* Spec 4.5 step 2: the subgraph reachable from id contains a cycle.
CycleFrom(cg, id) ==
    \E n \in ReachableFrom(cg, {id}) : n \in ReachableFrom(cg, Producers(cg, n))

\* The ids a node reads, in the order of its inputs.
Sources(cg, id) ==
    LET n   == NodeById(cg.nodes, id)
        ids == {cg.nodes[i].id : i \in 1..Len(cg.nodes)}
    IN  [j \in 1..Len(n.inputs) |-> ParsePortRef(n.inputs[j], ids).id]

\* A depth-first search that places a node before the nodes it reads.
RECURSIVE VisitPre(_, _, _)
VisitPre(cg, id, order) ==
    IF id \in Range(order) THEN order
    ELSE LET srcs == Sources(cg, id)
             F[j \in 0..Len(srcs)] ==
                 IF j = 0 THEN Append(order, id) ELSE VisitPre(cg, srcs[j], F[j - 1])
         IN  F[Len(srcs)]

\* Spec 4.5 step 2: depth-first search from a node along its input
\* references, over an acyclic reachable subgraph; a node is placed after the
\* nodes it reads, and once.
RECURSIVE Visit(_, _, _)
Visit(cg, id, order) ==
    IF id \in Range(order) THEN order
    ELSE LET srcs == Sources(cg, id)
             F[j \in 0..Len(srcs)] ==
                 IF j = 0 THEN order ELSE Visit(cg, srcs[j], F[j - 1])
         IN  Append(F[Len(srcs)], id)

\* The order in which an evaluation of node id walks the nodes.
ExecutionOrder(cg, id) == Visit(cg, id, <<>>)

\* Spec 4.5 step 3: the per-evaluation buffer, None for every node.
EmptyBuffer(cg) == [id \in {cg.nodes[i].id : i \in 1..Len(cg.nodes)} |-> None]

\* Spec 4.5 step 4 for one node, given the buffers filled so far: its output
\* vector, or the error.
NodeOutput(cg, id, buf, feed) ==
    LET n   == NodeById(cg.nodes, id)
        ids == {cg.nodes[i].id : i \in 1..Len(cg.nodes)}
    IN
    IF n.kind \in {"constant", "variable"} THEN [raised |-> "", out |-> <<n.value>>]
    ELSE IF n.kind = "placeholder"
    THEN IF id \in DOMAIN feed THEN [raised |-> "", out |-> <<feed[id]>>]
         ELSE [raised |-> "MissingFeed", out |-> <<>>]
    ELSE
    LET ref(j) == ParsePortRef(n.inputs[j], ids)
        short  == {j \in 1..Len(n.inputs) :
                      \/ buf[ref(j).id] = None
                      \/ Len(buf[ref(j).id][1]) <= ref(j).port}
    IN  IF short # {} THEN [raised |-> "BadPort", out |-> <<>>]
        ELSE ApplyOp(n.op_name, cg.ops,
                     [j \in 1..Len(n.inputs) |-> buf[ref(j).id][1][ref(j).port + 1]],
                     n.constants)

\* Spec 4.5 step 4: the walk of the order from position p on; it stops at the
\* first node that fails.
RECURSIVE Walk(_, _, _, _, _)
Walk(cg, order, p, buf, feed) ==
    IF p > Len(order) THEN [raised |-> "", buf |-> buf]
    ELSE LET r == NodeOutput(cg, order[p], buf, feed) IN
         IF r.raised # "" THEN [raised |-> r.raised, buf |-> buf]
         ELSE Walk(cg, order, p + 1, [buf EXCEPT ![order[p]] = Some(r.out)], feed)

\* The backend's CompiledGraph.run(target, feed): spec 4.5 steps 1-5.
BackendRun(cg, target_id, feed) ==
    LET ids == {cg.nodes[i].id : i \in 1..Len(cg.nodes)}
        t   == ParsePortRef(target_id, ids)
    IN
    IF ~cg.valid THEN Outcome(cg.error, <<>>)
    ELSE IF ~t.known THEN Outcome("UnknownNode", <<>>)
    ELSE IF CycleFrom(cg, t.id) THEN Outcome("CycleDetected", <<>>)
    ELSE LET r == Walk(cg, ExecutionOrder(cg, t.id), 1, EmptyBuffer(cg), feed) IN
         IF r.raised # "" THEN Outcome(r.raised, <<>>)
         ELSE IF Len(r.buf[t.id][1]) <= t.port THEN Outcome("BadPort", <<>>)
         ELSE Outcome("", r.buf[t.id][1][t.port + 1])

\* ------------------------------------------------- frontend: evaluation

\* `feed_dict or {}` and `if feed_dict is None: feed_dict = {}`.
FeedOrEmpty(feed_dict) == IF feed_dict = None THEN EmptyDict ELSE feed_dict[1]

\* CompiledGraph.__init__: the graph dict is serialised at once and the
\* backend compiles the text. src is the Graph the dict came from.
CompiledGraphInit(graph_json) ==
    BackendCompile(json_dumps(graph_json), custom_operations)

\* CompiledGraph.run passing no feed to the backend.
CompiledGraphRunNoFeed(cg, target_id, feed_dict) ==
    BackendRun(cg, target_id, EmptyDict)

\* CompiledGraph.run on what the object holds.
CompiledGraphRun(cg, target_id, feed_dict) ==
    BackendRun(cg, target_id, FeedOrEmpty(feed_dict))

\* backend.execute: the dict, target included, is serialised, compiled into a
\* throwaway CompiledGraph and run; a missing feed_dict is an empty one.
execute(graph_json, target_id, feed_dict) ==
    LET cg == BackendCompile(json_dumps(graph_json), custom_operations)
    IN  BackendRun(cg, target_id, FeedOrEmpty(feed_dict))

\* Graph.run takes the cached CompiledGraph when the attribute is set.
RunUsesCache(g) == compiled_graph[g] # None

\* Graph.run, lines 213-222, c being the value of self._compiled_graph: what
\* the call returns or raises.
RunWith(c, g, target_id, feed_dict) ==
    IF c # None
    THEN CompiledGraphRun(c[1], target_id, Some(FeedOrEmpty(feed_dict)))
    ELSE execute(to_json(g), target_id, feed_dict)

\* What Graph.run returns or raises in the current state.
RunOutcome(g, target_id, feed_dict) ==
    RunWith(compiled_graph[g], g, target_id, feed_dict)

\* Graph.run_optimized reuses the cached CompiledGraph when the attribute is set.
OptimizedReuses(g) == compiled_graph[g] # None

\* Graph.run_optimized, lines 253-254, c being the value of
\* self._compiled_graph: the CompiledGraph the attribute holds afterwards.
OptimizedWith(c, g) == IF c # None THEN c[1] ELSE CompiledGraphInit(to_json(g))

\* The CompiledGraph Graph.run_optimized has in self._compiled_graph after
\* line 254.
OptimizedGraph(g) == OptimizedWith(compiled_graph[g], g)

\* Graph.run_optimized, lines 253-259: what the call returns or raises.
RunOptimizedWith(c, g, target_id, feed_dict) ==
    LET cg == OptimizedWith(c, g) IN
    IF ~cg.valid THEN Outcome("RuntimeError", <<>>)
    ELSE CompiledGraphRun(cg, target_id, Some(FeedOrEmpty(feed_dict)))

\* What Graph.run_optimized returns or raises in the current state.
RunOptimizedOutcome(g, target_id, feed_dict) ==
    RunOptimizedWith(compiled_graph[g], g, target_id, feed_dict)

\* What Graph.compile().run returns or raises in the current state.
CompileRunOutcome(g, target_id, feed_dict) ==
    CompiledGraphRun(CompiledGraphInit(to_json(g)), target_id, feed_dict)

\* Graph.run: it returns or raises RunOutcome(g, target_id, feed_dict) and
\* leaves the graph's fields alone; the call record keeps the path taken.
run(g, target_id, feed_dict) ==
    /\ last' = Call("run", g, None, "",
                    IF RunUsesCache(g) THEN "cached" ELSE "json")
    /\ UNCHANGED <<graphVars, otherVars>>

\* Graph.run_optimized: it returns or raises
\* RunOptimizedOutcome(g, target_id, feed_dict) and leaves the CompiledGraph
\* it ran in _compiled_graph; the call record keeps the path taken.
run_optimized(g, target_id, feed_dict) ==
    /\ compiled_graph' = [compiled_graph EXCEPT ![g] = Some(OptimizedGraph(g))]
    /\ last' = Call("run_optimized", g, None, "",
                    IF OptimizedReuses(g) THEN "cached" ELSE "compiled")
    /\ UNCHANGED <<graphVars, hybridVars, handle, custom_operations, active_graph, pc>>

\* Graph.compile keeping the CompiledGraph it returns in _compiled_graph.
compile_caching(g) ==
    /\ handle' = Some([graph |-> g, compiled |-> CompiledGraphInit(to_json(g))])
    /\ compiled_graph' = [compiled_graph EXCEPT ![g] = Some(CompiledGraphInit(to_json(g)))]
    /\ last' = Call("compile", g, None, "", "")
    /\ UNCHANGED <<graphVars, hybridVars, custom_operations, active_graph, pc>>

\* Graph.compile: the caller keeps the returned CompiledGraph.
compile(g) ==
    /\ handle' = Some([graph |-> g, compiled |-> CompiledGraphInit(to_json(g))])
    /\ last' = Call("compile", g, None, "", "")
    /\ UNCHANGED <<graphVars, hybridVars, compiled_graph, custom_operations, active_graph, pc>>

\* A CompiledGraph that kept the graph dict and compiled it when run.
HandleCompiledLive(h) == CompiledGraphInit(to_json(h.graph))

\* The backend object a CompiledGraph handle executes: the one built by its
\* constructor.
HandleCompiled(h) == h.compiled

\* What handle.run returns or raises in the current state.
HandleRunOutcome(h, target_id, feed_dict) ==
    CompiledGraphRun(HandleCompiled(h), target_id, feed_dict)

\* CompiledGraph.run on the handle the caller holds: it returns or raises
\* HandleRunOutcome(handle[1], target_id, feed_dict).
handle_run(target_id, feed_dict) ==
    /\ handle # None
    /\ last' = Call("handle_run", handle[1].graph, None, "", "handle")
    /\ UNCHANGED <<graphVars, otherVars>>

\* CompiledGraph.run and run_auto, lines 435-438 and 457-460: a Node target
\* gives its id, a string target is the id.
IsNode(target) == target.cls \in {"Node", "MultiOutputNode"}

TargetId(target) == IF IsNode(target) THEN target.id ELSE target.str

\* The backend's CompiledGraph.run_auto(target, feed): spec 4.6, the same
\* evaluator as run.
BackendRunAuto(cg, target_id, feed) == BackendRun(cg, target_id, feed)

\* CompiledGraph.run_auto passing no feed to the backend.
CompiledGraphRunAutoNoFeed(cg, target, feed_dict) ==
    BackendRunAuto(cg, TargetId(target), EmptyDict)

\* CompiledGraph.run_auto on what the object holds.
CompiledGraphRunAuto(cg, target, feed_dict) ==
    BackendRunAuto(cg, TargetId(target), FeedOrEmpty(feed_dict))

\* What handle.run_auto returns or raises in the current state.
HandleRunAutoOutcome(h, target, feed_dict) ==
    CompiledGraphRunAuto(HandleCompiled(h), target, feed_dict)

\* CompiledGraph.run_auto on the handle the caller holds: it returns or
\* raises HandleRunAutoOutcome(handle[1], target, feed_dict).
handle_run_auto(target, feed_dict) ==
    /\ handle # None
    /\ last' = Call("handle_run_auto", handle[1].graph, None, "", "handle")
    /\ UNCHANGED <<graphVars, otherVars>>

\* ------------------------------------------------------ operation registry

\* register_operation keeping the entry a name already has.
register_operation_keeping(name, func, multi_output, replace) ==
    /\ IF name \in DOMAIN custom_operations /\ ~replace
       THEN /\ UNCHANGED custom_operations
            /\ last' = Call("register_operation", "", Some(name), "ValueError", "")
       ELSE /\ custom_operations' =
                  IF name \in DOMAIN custom_operations THEN custom_operations
                  ELSE DictSet(custom_operations, name,
                               [func |-> func, multi_output |-> multi_output])
            /\ last' = Call("register_operation", "", Some(name), "", "")
    /\ UNCHANGED <<graphVars, hybridVars, compiled_graph, handle, active_graph, pc>>

\* custom_ops.register_operation; every func of Funcs is callable. With the
\* backend loaded the executor is registered there under the same name.
register_operation(name, func, multi_output, replace) ==
    /\ IF name \in DOMAIN custom_operations /\ ~replace
       THEN /\ UNCHANGED custom_operations
            /\ last' = Call("register_operation", "", Some(name), "ValueError", "")
       ELSE /\ custom_operations' =
                  DictSet(custom_operations, name,
                          [func |-> func, multi_output |-> multi_output])
            /\ last' = Call("register_operation", "", Some(name), "", "")
    /\ UNCHANGED <<graphVars, hybridVars, compiled_graph, handle, active_graph, pc>>

\* custom_ops.operation: the decorator registers func under name, or under
\* func.__name__ when no name is given; a func of Funcs is named by itself.
operation(name, func, multi_output, replace) ==
    register_operation(IF name # None THEN name[1] ELSE func, func, multi_output, replace)

\* custom_ops.is_custom_operation
is_custom_operation(name) == name \in DOMAIN custom_operations

\* custom_ops.get_custom_operation: _custom_operations.get(name)
get_custom_operation(name) ==
    IF name \in DOMAIN custom_operations THEN Some(custom_operations[name]) ELSE None

\* custom_ops.list_custom_operations
list_custom_operations == KeyList(DOMAIN custom_operations)

\* ---------------------------------------------------------- hybrid manager

\* The record kept of a call to the hybrid manager: its arguments and what it
\* returned.
ManagerCall(op, name, arg, override, returned) ==
    [op |-> op, graph |-> "", name |-> name, raised |-> "", via |-> "",
     arg |-> arg, override |-> override, returned |-> returned]

\* register_python_operation storing the function before the test.
register_python_operation_always(name, func, override) ==
    /\ python_operations' = DictSet(python_operations, name, func)
    /\ operation_priorities' = DictSet(operation_priorities, name, "python")
    /\ last' = ManagerCall("register_python_operation", Some(name), func, override,
                           ~(name \in DOMAIN python_operations /\ ~override))
    /\ UNCHANGED <<graphVars, compiled_graph, handle, custom_operations,
                   active_graph, cpp_operations, pc>>

\* HybridOperationManager.register_python_operation, on the module's _manager.
register_python_operation(name, func, override) ==
    /\ IF name \in DOMAIN python_operations /\ ~override
       THEN /\ UNCHANGED <<python_operations, operation_priorities>>
            /\ last' = ManagerCall("register_python_operation", Some(name), func,
                                   override, FALSE)
       ELSE /\ python_operations' = DictSet(python_operations, name, func)
            /\ operation_priorities' = DictSet(operation_priorities, name, "python")
            /\ last' = ManagerCall("register_python_operation", Some(name), func,
                                   override, TRUE)
    /\ UNCHANGED <<graphVars, compiled_graph, handle, custom_operations,
                   active_graph, cpp_operations, pc>>

\* HybridOperationManager.register_cpp_operation
register_cpp_operation(name, op, override) ==
    /\ IF name \in DOMAIN cpp_operations /\ ~override
       THEN /\ UNCHANGED <<cpp_operations, operation_priorities>>
            /\ last' = ManagerCall("register_cpp_operation", Some(name), op,
                                   override, FALSE)
       ELSE /\ cpp_operations' = DictSet(cpp_operations, name, op)
            /\ operation_priorities' = DictSet(operation_priorities, name, "cpp")
            /\ last' = ManagerCall("register_cpp_operation", Some(name), op,
                                   override, TRUE)
    /\ UNCHANGED <<graphVars, compiled_graph, handle, custom_operations,
                   active_graph, python_operations, pc>>

\* What get_operation returns for a name: the wrapper _create_cpp_wrapper
\* makes, a closure over the name, or the registered Python function.
CppWrapper(name) == [kind |-> "cpp_wrapper", of |-> name]

PythonFunction(func) == [kind |-> "function", of |-> func]

\* HybridOperationManager.get_operation
get_operation(name) ==
    IF /\ name \in DOMAIN operation_priorities
       /\ operation_priorities[name] = "cpp"
       /\ name \in DOMAIN cpp_operations
    THEN Some(CppWrapper(name))
    ELSE IF /\ name \in DOMAIN operation_priorities
            /\ operation_priorities[name] = "python"
            /\ name \in DOMAIN python_operations
    THEN Some(PythonFunction(python_operations[name]))
    ELSE IF name \in DOMAIN cpp_operations THEN Some(CppWrapper(name))
    ELSE IF name \in DOMAIN python_operations
    THEN Some(PythonFunction(python_operations[name]))
    ELSE None

\* HybridOperationManager.list_operations: a dict name -> description, the
\* C++ entry of a name replacing its Python entry.
list_operations ==
    [name \in DOMAIN python_operations \cup DOMAIN cpp_operations |->
        IF name \in DOMAIN cpp_operations
        THEN [type |-> "cpp",
              priority |-> IF name \in DOMAIN operation_priorities
                           THEN operation_priorities[name] ELSE "cpp",
              operation |-> cpp_operations[name]]
        ELSE [type |-> "python",
              priority |-> IF name \in DOMAIN operation_priorities
                           THEN operation_priorities[name] ELSE "python",
              function |-> python_operations[name]]]

\* remove_operation leaving the name's priority in place.
remove_operation_keeping_priority(name) ==
    /\ python_operations' = DictDel(python_operations, name)
    /\ cpp_operations' = DictDel(cpp_operations, name)
    /\ UNCHANGED operation_priorities
    /\ last' = ManagerCall("remove_operation", Some(name), "", FALSE,
                           name \in DOMAIN python_operations \cup DOMAIN cpp_operations)
    /\ UNCHANGED <<graphVars, compiled_graph, handle, custom_operations, active_graph, pc>>

\* HybridOperationManager.remove_operation
remove_operation(name) ==
    /\ python_operations' = DictDel(python_operations, name)
    /\ cpp_operations' = DictDel(cpp_operations, name)
    /\ operation_priorities' = DictDel(operation_priorities, name)
    /\ last' = ManagerCall("remove_operation", Some(name), "", FALSE,
                           name \in DOMAIN python_operations \cup DOMAIN cpp_operations)
    /\ UNCHANGED <<graphVars, compiled_graph, handle, custom_operations, active_graph, pc>>

\* HybridOperationManager.clear_operations
clear_operations ==
    /\ python_operations' = EmptyDict
    /\ cpp_operations' = EmptyDict
    /\ operation_priorities' = EmptyDict
    /\ last' = ManagerCall("clear_operations", None, "", FALSE, FALSE)
    /\ UNCHANGED <<graphVars, compiled_graph, handle, custom_operations, active_graph, pc>>

\* --------------------------------------------------------- context manager

\* The Graph a thread builds and evaluates.
Own(t) == IF t = "t1" THEN "g1" ELSE "g2"

\* Graph.__enter__, line 320: the test of the module global.
enter_check(t) ==
    /\ pc[t] = "start"
    /\ pc' = [pc EXCEPT ![t] = IF active_graph # None THEN "raised" ELSE "enter_set"]
    /\ UNCHANGED <<graphVars, hybridVars, compiled_graph, handle, custom_operations, active_graph, last>>

\* Graph.__enter__, line 322: the module global is set.
enter_set(t) ==
    /\ pc[t] = "enter_set"
    /\ active_graph' = Some(Own(t))
    /\ pc' = [pc EXCEPT ![t] = "body"]
    /\ UNCHANGED <<graphVars, hybridVars, compiled_graph, handle, custom_operations, last>>

\* Graph.__exit__
exit(t) ==
    /\ pc[t] = "body"
    /\ active_graph' = None
    /\ pc' = [pc EXCEPT ![t] = "after"]
    /\ UNCHANGED <<graphVars, hybridVars, compiled_graph, handle, custom_operations, last>>

\* __enter__ without the test of the module global.
with_enter_unchecked(g) ==
    /\ active_graph' = Some(g)
    /\ last' = Call("__enter__", g, None, "", "")
    /\ UNCHANGED <<graphVars, hybridVars, compiled_graph, handle, custom_operations, pc>>

\* Graph.__enter__ as one call of a single caller: the statement
\* `with g:` entered.
with_enter(g) ==
    /\ IF active_graph # None
       THEN /\ UNCHANGED active_graph
            /\ last' = Call("__enter__", g, None, "RuntimeError", "")
       ELSE /\ active_graph' = Some(g)
            /\ last' = Call("__enter__", g, None, "", "")
    /\ UNCHANGED <<graphVars, hybridVars, compiled_graph, handle, custom_operations, pc>>

\* Graph.__exit__ of a single caller: the block of the `with g:` that was
\* entered is left, by its end or by an exception.
with_exit(g) ==
    /\ active_graph = Some(g)
    /\ active_graph' = None
    /\ last' = Call("__exit__", g, None, "", "")
    /\ UNCHANGED <<graphVars, hybridVars, compiled_graph, handle, custom_operations, pc>>

\* What graph.get_active_graph() returns or raises.
ActiveGraphOutcome ==
    IF active_graph = None THEN [raised |-> "RuntimeError", graph |-> ""]
    ELSE [raised |-> "", graph |-> active_graph[1]]

\* graph.get_active_graph
get_active_graph ==
    /\ last' = Call("get_active_graph", ActiveGraphOutcome.graph, None,
                    ActiveGraphOutcome.raised, "")
    /\ UNCHANGED <<graphVars, otherVars>>

\* The builder calls a thread makes inside its `with` block, on its own graph.
thread_constant(t, value, name) == pc[t] = "body" /\ constant(Own(t), value, name)

thread_placeholder(t, name) == pc[t] = "body" /\ placeholder(Own(t), name)

thread_reverse(t, node, name) ==
    pc[t] = "body" /\ node.graph = Own(t) /\ reverse(node, name)

\* The evaluation a thread makes after its `with` block, on its own graph.
thread_run(t, target_id, feed_dict) ==
    pc[t] = "after" /\ run(Own(t), target_id, feed_dict)

\* ------------------------------------------------------- specifications

Init ==
    /\ nodes = [g \in Graphs |-> <<>>]
    /\ node_counter = [g \in Graphs |-> 0]
    /\ node_objects = [g \in Graphs |-> EmptyDict]
    /\ compiled_graph = [g \in Graphs |-> None]
    /\ handle = None
    /\ custom_operations = EmptyDict
    /\ active_graph = None
    /\ python_operations = EmptyDict
    /\ cpp_operations = EmptyDict
    /\ operation_priorities = EmptyDict
    /\ pc = [t \in Threads |-> "start"]
    /\ last = NoCall

\* Lists of one or two nodes given to concat and custom_op.
NodeLists == {<<n>> : n \in UserNodes} \cup {<<n, m>> : n \in UserNodes, m \in UserNodes}

\* Targets given to the evaluation calls: a Node's id or an id string.
Targets == {n.id : n \in UserNodes}

\* The builder calls, on any graph and with any nodes the caller holds.
Build ==
    \/ \E g \in Graphs, name \in AnyNameArgs : placeholder(g, name)
    \/ \E g \in Graphs, value \in Values, name \in NameArgs : constant(g, value, name)
    \/ \E g \in Graphs, value \in Values, name \in NameArgs : variable(g, value, name)
    \/ \E node \in UserNodes, name \in NameArgs : reverse(node, name)
    \/ \E node \in UserNodes, name \in NameArgs : to_upper(node, name)
    \/ \E node_list \in NodeLists, name \in NameArgs : concat(node_list, name)
    \/ \E node \in UserNodes, d \in Delimiters, name \in NameArgs : split(node, d, name)

\* The builder calls of a single caller, on two graphs.
NextBuild == TotalNodes < MaxNodes /\ Build

SpecBuild == Init /\ [][NextBuild]_vars

\* The graph that Spec and SpecCustom build.
G == "g1"

\* The registry calls of a single caller, and the nodes made on G with split
\* and with the registered operations.
NextCustom ==
    \/ \E name \in OpNames, func \in Funcs, m \in BOOLEAN, r \in BOOLEAN :
          register_operation(name, func, m, r)
    \/ /\ Len(nodes[G]) < MaxEvalNodes
       /\ \/ \E value \in Values : constant(G, value, None)
          \/ \E node \in UserNodes, d \in Delimiters, name \in NameArgs :
                split(node, d, name)
          \/ \E op_name \in OpNames, node_list \in NodeLists, name \in NameArgs :
                custom_op(op_name, node_list, <<>>, name)

SpecCustom == Init /\ [][NextCustom]_vars

\* The builder calls of Spec, on G.
BuildG ==
    \/ \E name \in NameArgs : placeholder(G, name)
    \/ \E value \in Values, name \in NameArgs : constant(G, value, name)
    \/ \E value \in Values, name \in NameArgs : variable(G, value, name)
    \/ \E node \in UserNodes, name \in NameArgs : reverse(node, name)
    \/ \E node_list \in NodeLists, name \in NameArgs : concat(node_list, name)
    \/ \E node \in UserNodes, d \in Delimiters, name \in NameArgs : split(node, d, name)

\* The evaluation calls of Spec, on G and on the handle compile() returned.
Evaluate ==
    \/ \E t \in Targets, f \in FeedArgs : run(G, t, f)
    \/ \E t \in Targets, f \in FeedArgs : run_optimized(G, t, f)
    \/ compile(G)
    \/ \E t \in Targets, f \in FeedArgs : handle_run(t, f)

\* A single caller building and evaluating one graph.
Next ==
    \/ Len(nodes[G]) < MaxEvalNodes /\ BuildG
    \/ Evaluate

Spec == Init /\ [][Next]_vars

\* A single caller building two graphs, with concat given nodes of both, and
\* evaluating G.
NextCross ==
    \/ /\ TotalNodes < MaxNodes
       /\ \/ \E g \in Graphs, value \in Values, name \in NameArgs :
                constant(g, value, name)
          \/ \E node_list \in NodeLists, name \in NameArgs : concat(node_list, name)
    \/ \E t \in Targets, f \in FeedArgs : run(G, t, f)
    \/ \E t \in Targets, f \in FeedArgs : run_optimized(G, t, f)

SpecCross == Init /\ [][NextCross]_vars

\* The public registration calls of the package: register_operation, the
\* @operation decorator and register_python_operation.
NextRegistry ==
    \/ \E name \in OpNames, func \in Funcs, m \in BOOLEAN, r \in BOOLEAN :
          register_operation(name, func, m, r)
    \/ \E name \in DecoratorNames, func \in Funcs, m \in BOOLEAN, r \in BOOLEAN :
          operation(name, func, m, r)
    \/ \E name \in OpNames, func \in Funcs, o \in BOOLEAN :
          register_python_operation(name, func, o)

SpecRegistry == Init /\ [][NextRegistry]_vars

\* The calls made on the hybrid manager.
NextHybrid ==
    \/ \E name \in OpNames, func \in Funcs, o \in BOOLEAN :
          register_python_operation(name, func, o)
    \/ \E name \in OpNames, op \in CppOps, o \in BOOLEAN :
          register_cpp_operation(name, op, o)
    \/ \E name \in OpNames : remove_operation(name)
    \/ clear_operations

SpecHybrid == Init /\ [][NextHybrid]_vars

\* A single caller entering and leaving `with` blocks of two graphs, nested
\* or in sequence, asking for the active graph and building on it.
NextContext ==
    \/ \E g \in Graphs : with_enter(g)
    \/ \E g \in Graphs : with_exit(g)
    \/ get_active_graph
    \/ /\ TotalNodes < MaxNodes
       /\ active_graph # None
       /\ \E value \in Values, name \in NameArgs : constant(active_graph[1], value, name)

SpecContext == Init /\ [][NextContext]_vars

\* Targets given to CompiledGraph.run and run_auto: a Node, or an id string.
TargetArgs == UserNodes \cup {[cls |-> "str", str |-> n.id] : n \in UserNodes}

\* A single caller building G, compiling it and evaluating the handle with
\* run and with run_auto.
NextHandle ==
    \/ /\ Len(nodes[G]) < MaxEvalNodes
       /\ \/ \E k \in FeedKeys : placeholder(G, Some(k))
          \/ \E value \in Values : constant(G, value, None)
          \/ \E value \in Values : variable(G, value, None)
          \/ \E node \in UserNodes : reverse(node, None)
          \/ \E node \in UserNodes, d \in Delimiters : split(node, d, None)
    \/ compile(G)
    \/ \E t \in Targets, f \in FeedArgs : handle_run(t, f)
    \/ \E target \in TargetArgs, f \in FeedArgs : handle_run_auto(target, f)

SpecHandle == Init /\ [][NextHandle]_vars

\* A single caller registering an operation, building on G a placeholder and
\* chains of split, reverse and the registered operation over it and over
\* their indexed outputs, and evaluating G with Graph.run.
NextPorts ==
    \/ \E func \in Funcs, m \in BOOLEAN : register_operation("my_op", func, m, TRUE)
    \/ /\ Len(nodes[G]) < MaxPortNodes
       /\ \/ \E k \in FeedKeys : placeholder(G, Some(k))
          \/ \E node \in UserNodes, d \in Delimiters : split(node, d, None)
          \/ \E node \in UserNodes : reverse(node, None)
          \/ \E node \in UserNodes : custom_op("my_op", <<node>>, <<>>, None)
    \/ \E t \in Targets, f \in PortFeedArgs : run(G, t, f)

SpecPorts == Init /\ [][NextPorts]_vars

\* Two threads, each running `with Graph() as g:` over its own graph and then
\* evaluating it; the interpreter may switch threads between any two steps.
NextThreads ==
    \/ \E t \in Threads : enter_check(t)
    \/ \E t \in Threads : enter_set(t)
    \/ \E t \in Threads : exit(t)
    \/ /\ TotalNodes < MaxNodes
       /\ \/ \E t \in Threads, value \in Values, name \in NameArgs :
                thread_constant(t, value, name)
          \/ \E t \in Threads, name \in NameArgs : thread_placeholder(t, name)
          \/ \E t \in Threads, node \in UserNodes, name \in NameArgs :
                thread_reverse(t, node, name)
    \/ \E t \in Threads, target \in Targets, f \in FeedArgs : thread_run(t, target, f)

SpecThreads == Init /\ [][NextThreads]_vars

\* ------------------------------------------------------------------ claims

BuilderOps == {"placeholder", "constant", "variable", "reverse", "to_upper",
               "concat", "split", "custom_op"}

\* The ids of the node dicts of graph g.
NodeIds(g) == {nodes[g][i].id : i \in 1..Len(nodes[g])}

\* The targets that are nodes or ports of graph g.
TargetsIn(g) == {n.id : n \in {m \in UserNodes : m.graph = g}}

\* The CompiledGraph a fresh compile of graph g gives in the current state.
Fresh(g) == CompiledGraphInit(to_json(g))

\* C1: cache invalidation. A Graph.run call never executes through a stale
\* cached CompiledGraph: it takes the JSON path, or the cached CompiledGraph
\* it runs is the one a compile of the current node list gives.
C1_RunNotStale ==
    (last.op = "run" /\ last.via = "cached")
        => compiled_graph[last.graph][1] = Fresh(last.graph)

\* An input reference with its optional ":k" suffix stripped names id.
RefNames(ref, id) ==
    ref = id \/ \E k \in 0..MaxIndex : ref = id \o ":" \o ToString(k)

\* The dependency relation of graph g has no cycle: no node reaches itself.
RECURSIVE DepClosure(_, _)
DepClosure(g, S) ==
    LET next == S \cup {i \in 1..Len(nodes[g]) :
                          \E j \in S : /\ "inputs" \in DOMAIN nodes[g][j]
                                       /\ \E r \in Range(nodes[g][j].inputs) :
                                              RefNames(r, nodes[g][i].id)}
    IN  IF next = S THEN S ELSE DepClosure(g, next)

Acyclic(g) ==
    \A i \in 1..Len(nodes[g]) :
        i \notin DepClosure(g, {k \in 1..Len(nodes[g]) :
                                  /\ "inputs" \in DOMAIN nodes[g][i]
                                  /\ \E r \in Range(nodes[g][i].inputs) :
                                         RefNames(r, nodes[g][k].id)})

\* Two outcomes are the same: the same string, or both calls fail.
SameOutcome(a, b) ==
    IF a.raised = "" THEN b.raised = "" /\ a.value = b.value ELSE b.raised # ""

\* C2: strategy equivalence. In every state of an acyclic graph, for every
\* target in the graph and every feed, run, compile().run and run_optimized
\* return the same outcome.
C2_StrategiesAgree ==
    \A g \in Graphs :
        Acyclic(g) =>
            \A t \in TargetsIn(g), f \in FeedArgs :
                /\ SameOutcome(RunOutcome(g, t, f), CompileRunOutcome(g, t, f))
                /\ SameOutcome(RunOutcome(g, t, f), RunOptimizedOutcome(g, t, f))

\* C3: recompile after mutation. After every Graph.run_optimized call the
\* cached CompiledGraph is the one a compile of the current node list gives,
\* so that every node of the graph is resolvable in it.
C3_OptimizedRecompiles ==
    last.op = "run_optimized" => compiled_graph[last.graph] = Some(Fresh(last.graph))

\* C4: Graph.run executes through the cached CompiledGraph only when that
\* CompiledGraph is valid.
C4_RunOnValidCacheOnly ==
    (last.op = "run" /\ last.via = "cached") => compiled_graph[last.graph][1].valid

\* C5: node ids are unique within a graph: the node list and the id-to-node
\* table have the same size.
C5_UniqueIds ==
    \A g \in Graphs : Len(nodes[g]) = Cardinality(DOMAIN node_objects[g])

\* C6: a builder call with an explicit name that is already the id of a node
\* of the graph raises ValueError and leaves the node list, the id-to-node
\* table and the auto-id counter as they were.
C6_DuplicateNameFails ==
    [][(/\ last'.op \in BuilderOps
        /\ last'.name # None
        /\ last'.name[1] \in NodeIds(last'.graph))
          => (last'.raised = "ValueError" /\ UNCHANGED graphVars)]_vars

C6_Witness ==
    /\ last.op \in {"reverse", "concat", "split"}
    /\ last.name = Some("a")
    /\ last.raised = "ValueError"
    /\ Len(nodes[last.graph]) = 2

\* C7: register_operation(name, f, replace=False) raises whenever name is
\* already an operation of the registry, built-in or custom, and then leaves
\* the registry unchanged.
C7_DuplicateOperationFails ==
    [][\A name \in OpNames, func \in Funcs, m \in BOOLEAN :
          (/\ register_operation(name, func, m, FALSE)
           /\ name \in BuiltinOps \cup DOMAIN custom_operations)
             => (last'.raised = "ValueError" /\ UNCHANGED custom_operations)]_vars

\* C8: two threads working on distinct graphs are independent: no thread's
\* context entry fails because of the other thread.
C8_ThreadsIndependent == \A t \in Threads : pc[t] # "raised"

\* C9: every input reference of every operation node names, after its
\* optional ":k" suffix is stripped, the id of a node of the same graph.
C9_InputsResolve ==
    \A g \in Graphs : \A i \in 1..Len(nodes[g]) :
        "inputs" \in DOMAIN nodes[g][i] =>
            \A r \in Range(nodes[g][i].inputs) : \E id \in NodeIds(g) : RefNames(r, id)

\* C10: a CompiledGraph handle is an immutable snapshot: every call other than
\* the compile() that replaces it leaves the handle and the object it executes
\* unchanged, and after a call that appended to the graph the object returns,
\* for every target and feed, what it returned before the append.
C10_HandleImmutable ==
    [][(handle # None /\ last'.op # "compile")
          => /\ handle' = handle
             /\ HandleCompiled(handle[1])' = HandleCompiled(handle[1])
             /\ nodes' # nodes =>
                    \A t \in Targets, f \in FeedArgs :
                        CompiledGraphRun(HandleCompiled(handle[1])', t, f)
                            = CompiledGraphRun(HandleCompiled(handle[1]), t, f)]_vars

C10_Witness ==
    /\ handle # None
    /\ last.op = "handle_run"
    /\ \E t \in Targets : HandleRunOutcome(handle[1], t, None).raised = ""
    /\ Len(nodes[G]) > Len(handle[1].compiled.nodes)

\* C11: to_json() keeps insertion order. Every builder call that returns adds
\* exactly one entry to to_json(g)["nodes"] of its graph, at the end, carrying
\* the id of the node it made; a builder call that raises, and every builder
\* call on another graph, leaves to_json(g) as it was.
C11_InsertionOrder ==
    [][last'.op \in BuilderOps =>
          \A g \in Graphs :
              IF g = last'.graph /\ last'.raised = ""
              THEN /\ Len(to_json(g)'.nodes) = Len(to_json(g).nodes) + 1
                   /\ SubSeq(to_json(g)'.nodes, 1, Len(to_json(g).nodes))
                          = to_json(g).nodes
                   /\ to_json(g)'.nodes[Len(to_json(g).nodes) + 1].id
                          = IF last'.name # None THEN last'.name[1]
                            ELSE "node_" \o ToString(node_counter[g])
              ELSE to_json(g)' = to_json(g)]_vars

\* reverse(to_upper(x)): the inner node precedes the outer one.
C11_Witness ==
    /\ last.op = "reverse" /\ last.raised = ""
    /\ Len(to_json(last.graph).nodes) = 3
    /\ "op" \in DOMAIN to_json(last.graph).nodes[2]
    /\ to_json(last.graph).nodes[2].op = "to_upper"
    /\ to_json(last.graph).nodes[3].inputs = <<to_json(last.graph).nodes[2].id>>

\* C12: a Graph is append-only. Every call, builder or evaluation, leaves the
\* node list of every graph a prefix of the node list after the call.
C12_AppendOnly ==
    [][\A g \in Graphs :
          /\ Len(nodes'[g]) >= Len(nodes[g])
          /\ SubSeq(nodes'[g], 1, Len(nodes[g])) = nodes[g]]_vars

\* A node appended to a graph that was evaluated, and an evaluation of a
\* graph that was appended to.
C12_Witness ==
    /\ compiled_graph[G] # None /\ handle # None
    /\ Len(nodes[G]) > Len(compiled_graph[G][1].nodes)
    /\ last.op \in {"run", "run_optimized", "compile"}

\* C13: node schema. Every node dict has an id and exactly one of "type" and
\* "op"; a placeholder has no "value", a constant or variable has one, and an
\* operation node has "inputs", and "constants" only when that list is
\* non-empty.
C13_NodeSchema ==
    \A g \in Graphs : \A i \in 1..Len(nodes[g]) :
        LET d == nodes[g][i] IN
        /\ "id" \in DOMAIN d
        /\ ("type" \in DOMAIN d) # ("op" \in DOMAIN d)
        /\ "type" \in DOMAIN d =>
               /\ d.type \in {"placeholder", "constant", "variable"}
               /\ d.type = "placeholder" => "value" \notin DOMAIN d
               /\ d.type \in {"constant", "variable"} => "value" \in DOMAIN d
               /\ DOMAIN d \subseteq {"id", "type", "value"}
        /\ "op" \in DOMAIN d =>
               /\ "inputs" \in DOMAIN d
               /\ "constants" \in DOMAIN d => d.constants # <<>>
               /\ DOMAIN d \subseteq {"id", "op", "inputs", "constants"}

\* A graph with a placeholder, an operation without constants and one with.
C13_Witness ==
    \E g \in Graphs :
        /\ \E i \in 1..Len(nodes[g]) :
               "type" \in DOMAIN nodes[g][i] /\ nodes[g][i].type = "placeholder"
        /\ \E i \in 1..Len(nodes[g]) :
               "op" \in DOMAIN nodes[g][i] /\ "constants" \notin DOMAIN nodes[g][i]
        /\ \E i \in 1..Len(nodes[g]) : "constants" \in DOMAIN nodes[g][i]

\* C14: every node id of every graph is a non-empty string, whatever name
\* argument the builder call was given.
C14_NonEmptyIds ==
    \A g \in Graphs : \A i \in 1..Len(nodes[g]) : nodes[g][i].id # ""

\* Index arguments given to a multi-output handle: the integers from -1 to
\* MaxIndex, and a string.
IndexArgs ==
    {[type |-> "int", value |-> k] : k \in (0 - 1)..MaxIndex}
        \cup {[type |-> "str", value |-> 0]}

\* The multi-output handles of graph g.
MultiHandles(g) ==
    {node_objects[g][i] : i \in {j \in DOMAIN node_objects[g] :
                                    node_objects[g][j].cls = "MultiOutputNode"}}

\* The output index a port reference "id:k" of node id carries.
PortIndex(id, ref) ==
    CHOOSE k \in (0 - 1)..MaxIndex : ref = id \o ":" \o ToString(k)

\* C15: indexing a multi-output handle with an index it accepts gives the
\* port reference "id:k" of that index, and the output index it carries is
\* not negative.
C15_PortIndexNonNegative ==
    \A g \in Graphs : \A n \in MultiHandles(g) : \A index \in IndexArgs :
        GetItemRaises(index) = "" =>
            /\ GetItem(n, index.value).id = n.id \o ":" \o ToString(index.value)
            /\ PortIndex(n.id, GetItem(n, index.value).id) >= 0

\* The node dict a call appended to graph g, and the handle the id-to-node
\* table holds for it after the call.
Appended(g) == nodes'[g][Len(nodes'[g])]
Returned(g) == node_objects'[g][Appended(g).id]

\* C16: a builder call that returns appends exactly one node and registers
\* the returned handle under the new id; the handle is a multi-output handle
\* exactly when the operation is multi-output: always for split, for
\* custom_op(op_name, ...) iff op_name is registered with multi_output=True
\* when the call is made, and never for the other builder calls.
C16_MultiOutputHandle ==
    [][(last'.op \in BuilderOps /\ last'.raised = "") =>
          LET g == last'.graph IN
          /\ Len(nodes'[g]) = Len(nodes[g]) + 1
          /\ Appended(g).id \in DOMAIN node_objects'[g]
          /\ Returned(g).id = Appended(g).id /\ Returned(g).graph = g
          /\ (Returned(g).cls = "MultiOutputNode") <=>
                \/ last'.op = "split"
                \/ /\ last'.op = "custom_op"
                   /\ custom_operations[Appended(g).op].multi_output]_vars

\* A custom_op of an operation registered as multi-output returned a
\* multi-output handle.
C16_Witness ==
    /\ last.op = "custom_op" /\ last.raised = ""
    /\ Len(nodes[G]) = 2
    /\ node_objects[G][nodes[G][2].id].cls = "MultiOutputNode"
    /\ custom_operations[nodes[G][2].op].func = "add_prefix_split"

\* The positions in the node list of graph g that target t names, and the
\* ids of the placeholders among the nodes reachable from them.
TargetIdx(g, t) == {i \in 1..Len(nodes[g]) : RefNames(t, nodes[g][i].id)}

PlaceholdersReached(g, t) ==
    {nodes[g][i].id : i \in {j \in DepClosure(g, TargetIdx(g, t)) :
                                /\ "type" \in DOMAIN nodes[g][j]
                                /\ nodes[g][j].type = "placeholder"}}

\* Some placeholder reachable from t is absent from the feed.
MissingIn(g, t, feed_dict) ==
    \E id \in PlaceholdersReached(g, t) : id \notin DOMAIN FeedOrEmpty(feed_dict)

\* C17: missing feed. For a graph that compiles, an evaluation of target t
\* with feed f fails with MissingFeed iff some placeholder reachable from t
\* is absent from f, on the path Graph.run takes (JSON or cached) and on the
\* path Graph.run_optimized takes.
C17_MissingFeed ==
    Fresh(G).valid =>
        \A t \in TargetsIn(G), f \in FeedArgs :
            /\ (RunOutcome(G, t, f).raised = "MissingFeed") <=> MissingIn(G, t, f)
            /\ (RunOptimizedOutcome(G, t, f).raised = "MissingFeed")
                   <=> MissingIn(G, t, f)

Evaluable(cg) ==
    IF ~cg.valid THEN {}
    ELSE {id \in {cg.nodes[i].id : i \in 1..Len(cg.nodes)} : ~CycleFrom(cg, id)}

\* The order of an evaluation is topological and covers the reachable nodes
\* only: every node is walked once, every node an operation node reads is
\* walked, and so has filled its buffer, before the operation is invoked, the
\* walk ends with the target, and no node outside the subgraph reachable from
\* the target is walked.
Topological(cg, id) ==
    LET order == ExecutionOrder(cg, id) IN
    /\ \A p, q \in 1..Len(order) : order[p] = order[q] => p = q
    /\ \A p \in 1..Len(order) :
          \A src \in Producers(cg, order[p]) :
              \E q \in 1..(p - 1) : order[q] = src
    /\ order[Len(order)] = id
    /\ Range(order) = ReachableFrom(cg, {id})

\* C19: topological correctness, for the CompiledGraph a compile of the
\* graph gives and for the cached one.
C19_TopologicalOrder ==
    LET fresh == Fresh(G) IN
    /\ \A id \in Evaluable(fresh) : Topological(fresh, id)
    /\ (compiled_graph[G] # None /\ compiled_graph[G][1] # fresh) =>
           \A id \in Evaluable(compiled_graph[G][1]) :
               Topological(compiled_graph[G][1], id)

\* An evaluation that returned walked every node of the graph, an operation
\* node after the node it reads.
C19_Witness ==
    /\ last.op \in {"run", "run_optimized"}
    /\ \E id \in Evaluable(Fresh(G)) :
          /\ Len(ExecutionOrder(Fresh(G), id)) >= 2
          /\ Len(ExecutionOrder(Fresh(G), id)) = Len(nodes[G])
          /\ RunOutcome(G, id, None).raised = ""

\* The subgraph of graph g reachable from target t contains a cycle: some
\* reachable node is reachable from the nodes it reads.
HasCycle(g, t) ==
    \E i \in DepClosure(g, TargetIdx(g, t)) :
        i \in DepClosure(g, {k \in 1..Len(nodes[g]) :
                                /\ "inputs" \in DOMAIN nodes[g][i]
                                /\ \E r \in Range(nodes[g][i].inputs) :
                                       RefNames(r, nodes[g][k].id)})

\* C20: cycle rejection. For a graph that compiles, every evaluation of a
\* target whose reachable subgraph contains a cycle fails with CycleDetected
\* and returns no value, through run and through run_optimized.
C20_CycleRejected ==
    Fresh(G).valid =>
        \A t \in TargetsIn(G), f \in FeedArgs :
            HasCycle(G, t) =>
                /\ RunOutcome(G, t, f) = Outcome("CycleDetected", <<>>)
                /\ RunOptimizedOutcome(G, t, f) = Outcome("CycleDetected", <<>>)

\* What the evaluation of node id leaves in the buffers of compiled graph cg,
\* and the number of outputs the node returned in it: None when the
\* evaluation did not get as far as the node's output.
ProducerRun(cg, id, feed) ==
    Walk(cg, ExecutionOrder(cg, id), 1, EmptyBuffer(cg), feed)

OutputCount(cg, id, feed) ==
    LET r == ProducerRun(cg, id, feed)
    IN  IF r.raised = "" THEN Some(Len(r.buf[id][1])) ELSE None

\* The dynamic producers among the multi-output handles of graph g, in the
\* compiled graph cg.
DynamicHandles(g, cg) ==
    {m \in MultiHandles(g) : Arity(NodeById(cg.nodes, m.id)) = 0}

\* The operation nodes of cg that read some dynamic producer.
DynamicReaders(cg) ==
    {cg.nodes[i].id : i \in {j \in 1..Len(cg.nodes) :
        /\ cg.nodes[j].kind = "operation"
        /\ \E src \in Producers(cg, cg.nodes[j].id) :
               Arity(NodeById(cg.nodes, src)) = 0}}

\* Some input of node id reads an output its producer did not return.
ReadsBeyond(cg, id, feed) ==
    LET n   == NodeById(cg.nodes, id)
        ids == {cg.nodes[i].id : i \in 1..Len(cg.nodes)}
    IN  \E j \in 1..Len(n.inputs) :
            LET ref == ParsePortRef(n.inputs[j], ids)
            IN  ref.port >= OutputCount(cg, ref.id, feed)[1]

Occurrences(list, x) == Cardinality({i \in 1..Len(list) : list[i] = x})

\* What the registry answers for name after a registration of (func, m).
Registered(name, func, m) ==
    /\ is_custom_operation(name)
    /\ Occurrences(list_custom_operations, name) = 1
    /\ get_custom_operation(name) = Some([func |-> func, multi_output |-> m])

\* C23: after a register_operation(name, func, multi_output=m, replace=r)
\* that returned, made directly or by the @operation decorator (under the
\* function's name when the decorator is given none), is_custom_operation(name)
\* is true, list_custom_operations() holds name once and the lookup of name
\* gives (func, m), an entry the name had before being overwritten.
C23_RegisteredIsLookedUp ==
    [][\A func \in Funcs, m \in BOOLEAN, r \in BOOLEAN :
          /\ \A name \in OpNames :
                (register_operation(name, func, m, r) /\ last'.raised = "")
                    => Registered(name, func, m)'
          /\ \A name \in DecoratorNames :
                (operation(name, func, m, r) /\ last'.raised = "")
                    => Registered(IF name # None THEN name[1] ELSE func, func, m)']_vars

\* A registration returned for a name registered before with the other
\* function, and a function is registered under its own name.
C23_Witness ==
    /\ last.op = "register_operation" /\ last.raised = "" /\ last.name = Some("my_op")
    /\ \E f \in Funcs :
          /\ is_custom_operation(f) /\ custom_operations[f].func = f
          /\ custom_operations["my_op"].func # f
    /\ Len(list_custom_operations) >= 3

\* C24: every operation registered through the package's register_operation
\* is among the names the package's list_operations() reports.
C24_RegisteredAreListed ==
    \A name \in DOMAIN custom_operations : name \in DOMAIN list_operations

\* C25: a name registered as a C++ operation is looked up as the C++ wrapper,
\* whatever the order of its Python and C++ registrations.
C25_CppPriority ==
    \A name \in DOMAIN cpp_operations : get_operation(name) = Some(CppWrapper(name))

\* C26: register_python_operation with override=False on a name that is a
\* Python operation, and register_cpp_operation with override=False on a name
\* that is a C++ operation, return False and leave the three tables as they
\* are; every other registration returns True and the name's entry in the
\* table registered to is the new one.
C26_OverrideFalse ==
    [][/\ last'.op = "register_python_operation" =>
            LET name == last'.name[1] IN
            IF name \in DOMAIN python_operations /\ ~last'.override
            THEN last'.returned = FALSE /\ UNCHANGED hybridVars
            ELSE last'.returned = TRUE /\ python_operations'[name] = last'.arg
       /\ last'.op = "register_cpp_operation" =>
            LET name == last'.name[1] IN
            IF name \in DOMAIN cpp_operations /\ ~last'.override
            THEN last'.returned = FALSE /\ UNCHANGED hybridVars
            ELSE last'.returned = TRUE /\ cpp_operations'[name] = last'.arg]_vars

\* A registration with override=False was refused for a name registered in
\* both tables.
C26_Witness ==
    /\ last.op \in {"register_python_operation", "register_cpp_operation"}
    /\ last.returned = FALSE
    /\ last.name[1] \in DOMAIN python_operations \cap DOMAIN cpp_operations

\* The three tables of the hybrid manager agree: the names with a priority
\* are the names of the two operation tables, a name's priority names a table
\* that holds it, and get_operation gives None for the names of neither table
\* and for those only.
HybridConsistent ==
    /\ DOMAIN operation_priorities
           = DOMAIN python_operations \cup DOMAIN cpp_operations
    /\ \A name \in DOMAIN operation_priorities :
          \/ operation_priorities[name] = "python" /\ name \in DOMAIN python_operations
          \/ operation_priorities[name] = "cpp" /\ name \in DOMAIN cpp_operations
    /\ \A name \in OpNames :
          (get_operation(name) = None)
              <=> name \notin DOMAIN python_operations \cup DOMAIN cpp_operations

\* C29: hybrid manager consistency. Every call of register_python_operation,
\* register_cpp_operation, remove_operation and clear_operations leaves the
\* three tables in agreement, and remove_operation(name) returns True iff
\* name was in one of the operation tables and leaves get_operation(name)
\* None.
C29_HybridConsistency ==
    [][/\ HybridConsistent'
       /\ \A name \in OpNames :
              (last'.op = "remove_operation" /\ last'.name = Some(name)) =>
                  /\ last'.returned
                         <=> name \in DOMAIN python_operations \cup DOMAIN cpp_operations
                  /\ get_operation(name)' = None]_vars

\* remove_operation returned True for a name held by both tables while the
\* other name stays registered.
C29_Witness ==
    /\ last.op = "remove_operation" /\ last.returned
    /\ get_operation(last.name[1]) = None
    /\ \E name \in OpNames :
          name \in DOMAIN python_operations \cap DOMAIN cpp_operations

\* C27: the Graph context manager of a single caller. Entering a context
\* while a graph, the same or another, is active raises RuntimeError and
\* leaves the active graph as it is, and otherwise makes the entered graph
\* the active one; exiting leaves no active graph; get_active_graph() raises
\* RuntimeError exactly when there is none, and there is none from an exit
\* until the next context entry that returns.
C27_ContextManager ==
    [][/\ last'.op = "__enter__" =>
            IF active_graph # None
            THEN last'.raised = "RuntimeError" /\ active_graph' = active_graph
            ELSE last'.raised = "" /\ active_graph' = Some(last'.graph)
       /\ last'.op = "__exit__" => active_graph' = None
       /\ last'.op = "get_active_graph" =>
            /\ (last'.raised = "RuntimeError") <=> (active_graph = None)
            /\ last'.raised = "" => active_graph = Some(last'.graph)
       /\ (active_graph = None /\ active_graph' # None) =>
            (last'.op = "__enter__" /\ last'.raised = "")]_vars

\* Inside the context of a graph that has a node, entering the context of
\* the other graph raised.
C27_Witness ==
    /\ last.op = "__enter__" /\ last.raised = "RuntimeError"
    /\ active_graph # None /\ active_graph # Some(last.graph)
    /\ nodes[active_graph[1]] # <<>>

\* C28: acyclic by construction. In the graph Spec builds, whose operation
\* nodes all take their inputs from nodes of the same graph, every input
\* reference of the operation node at position i names the id of a node at a
\* position below i, no operation node lists its own id as an input, and the
\* dependency graph is acyclic.
C28_AcyclicByConstruction ==
    /\ \A i \in 1..Len(nodes[G]) :
          "inputs" \in DOMAIN nodes[G][i] =>
              \A r \in Range(nodes[G][i].inputs) :
                  /\ \E j \in 1..(i - 1) : RefNames(r, nodes[G][j].id)
                  /\ ~RefNames(r, nodes[G][i].id)
    /\ Acyclic(G)

\* C30: Graph.compile() leaves the Graph alone. A compile call changes neither
\* the node list, the id counter, the id-to-node table nor _compiled_graph,
\* and the handle it returns holds a compilation of its own of the node list;
\* _compiled_graph changes in a run_optimized call only; and a run made while
\* _compiled_graph is None, as it is after compile() alone, takes the JSON
\* path.
C30_CompileReadOnly ==
    [][/\ last'.op = "compile" =>
            /\ UNCHANGED <<graphVars, compiled_graph>>
            /\ handle' = Some([graph |-> last'.graph, compiled |-> Fresh(last'.graph)])
       /\ compiled_graph' # compiled_graph => last'.op = "run_optimized"
       /\ (last'.op = "run" /\ compiled_graph[last'.graph] = None) =>
            last'.via = "json"]_vars

\* A run took the JSON path on a graph with nodes of which the caller holds
\* a compiled handle.
C30_Witness ==
    /\ last.op = "run" /\ last.via = "json"
    /\ handle # None /\ handle[1].graph = G
    /\ Len(handle[1].compiled.nodes) = Len(nodes[G]) /\ Len(nodes[G]) >= 2
    /\ compiled_graph[G] = None

====
